---- MODULE Spec2Model ----
(***************************************************************************)
(* WorkflowLogger.execute and insertLog of n8n-ryze-workflow-logger.       *)
(*                                                                         *)
(* One invocation of the node: the fold over the input items, the          *)
(* script_id check, the construction of the log row, the MySQL insert and  *)
(* the result (or the error) the invocation ends with.                     *)
(*                                                                         *)
(* JavaScript objects are functions from the property names that are       *)
(* present to their values: a missing property is a name that is not in    *)
(* the DOMAIN.  Strings that the code parses are sequences of characters.  *)
(* Values whose JavaScript type varies (number, NaN, null, string, ...)    *)
(* are records tagged by the field k.                                      *)
(***************************************************************************)
EXTENDS Integers, Sequences, FiniteSets, TLC

(***************************************************************************)
(* Bounds of the model.                                                    *)
(***************************************************************************)
MaxReports == 2        \* input items per invocation
MaxIdLen == 2          \* characters of execution.script_id
MaxItems == 2          \* entries of details.sent_items.items

(***************************************************************************)
(* JavaScript values.                                                      *)
(***************************************************************************)
Undefined == [k |-> "undefined"]
Null == [k |-> "null"]
NaN == [k |-> "NaN"]
Num(n) == [k |-> "number", n |-> n]
Str(s) == [k |-> "string", s |-> s]
NativeFunction(name) == [k |-> "function", name |-> name]

\* Properties every object literal {} inherits from Object.prototype.
ObjectPrototype ==
    [constructor |-> NativeFunction("Object"),
     toString |-> NativeFunction("toString"),
     valueOf |-> NativeFunction("valueOf"),
     hasOwnProperty |-> NativeFunction("hasOwnProperty")]

\* input.summary || {}, input.execution || {}, input.details || {}
PropOrEmpty(obj, name) == IF name \in DOMAIN obj THEN obj[name] ELSE <<>>

\* Mutant of OrZero: a missing field counts as 1.
OrZeroMissingIsOne(obj, name) == IF name \in DOMAIN obj THEN obj[name] ELSE 1

\* summary.total_input || 0 (the field is a number when present)
OrZero(obj, name) == IF name \in DOMAIN obj /\ obj[name] # 0 THEN obj[name] ELSE 0

\* summary.failed_items ?? 0
NullishZero(obj, name) == IF name \in DOMAIN obj THEN obj[name] ELSE 0

(***************************************************************************)
(* Number.prototype.toString and parseInt(string, 10).                     *)
(***************************************************************************)
DigitChars == <<"0", "1", "2", "3", "4", "5", "6", "7", "8", "9">>

DigitSet == {DigitChars[j] : j \in 1..10}

DigitValue(c) == (CHOOSE j \in 1..10 : DigitChars[j] = c) - 1

RECURSIVE DecimalText(_)
DecimalText(n) ==
    IF n < 0 THEN <<"-">> \o DecimalText(-n)
    ELSE IF n < 10 THEN <<DigitChars[n + 1]>>
    ELSE Append(DecimalText(n \div 10), DigitChars[(n % 10) + 1])

WhiteSpace == {" "}

RECURSIVE TrimStart(_)
TrimStart(s) ==
    IF s # <<>> /\ Head(s) \in WhiteSpace THEN TrimStart(Tail(s)) ELSE s

RECURSIVE DigitPrefix(_)
DigitPrefix(s) ==
    IF s # <<>> /\ Head(s) \in DigitSet
    THEN <<Head(s)>> \o DigitPrefix(Tail(s))
    ELSE <<>>

RECURSIVE DigitsValue(_)
DigitsValue(ds) ==
    IF ds = <<>> THEN 0
    ELSE 10 * DigitsValue(SubSeq(ds, 1, Len(ds) - 1)) + DigitValue(ds[Len(ds)])

\* parseInt(s, 10): leading white space, an optional sign, then the longest
\* run of decimal digits; NaN when there is no digit.
ParseInt(s) ==
    LET t == TrimStart(s)
        signed == t # <<>> /\ Head(t) \in {"+", "-"}
        u == IF signed THEN Tail(t) ELSE t
        ds == DigitPrefix(u)
    IN  IF ds = <<>> THEN NaN
        ELSE IF signed /\ Head(t) = "-" THEN Num(-DigitsValue(ds))
        ELSE Num(DigitsValue(ds))

\* scriptId = execution.script_id ? parseInt(execution.script_id, 10) : null
ExtractScriptId(execution) ==
    IF "script_id" \in DOMAIN execution /\ execution["script_id"] # <<>>
    THEN ParseInt(execution["script_id"])
    ELSE Null

\* Mutant of IsFalsy: scriptId === null, which lets NaN through.
IsFalsyOnlyNull(v) == v.k = "null"

\* !scriptId for a value of type number | null
IsFalsy(v) == v.k \in {"null", "undefined", "NaN"} \/ (v.k = "number" /\ v.n = 0)

(***************************************************************************)
(* mergedEventSummary: Record<string, number> = {}.  An object literal is  *)
(* the sequence of its own <<name, value>> pairs in insertion order (the   *)
(* order Object.entries and JSON.stringify follow) on top of               *)
(* Object.prototype.                                                       *)
(***************************************************************************)
OwnNames(obj) == {obj[j][1] : j \in 1..Len(obj)}

OwnValue(obj, name) == obj[CHOOSE j \in 1..Len(obj) : obj[j][1] = name][2]

\* obj[name]: an own property, else an inherited one, else undefined
GetProp(obj, name) ==
    IF name \in OwnNames(obj) THEN OwnValue(obj, name)
    ELSE IF name \in DOMAIN ObjectPrototype THEN ObjectPrototype[name]
    ELSE Undefined

\* obj[name] = v
SetProp(obj, name, v) ==
    IF name \in OwnNames(obj)
    THEN [j \in 1..Len(obj) |-> IF obj[j][1] = name THEN <<name, v>> ELSE obj[j]]
    ELSE Append(obj, <<name, v>>)

IsTruthy(v) ==
    CASE v.k = "number" -> v.n # 0
      [] v.k = "string" -> v.s # <<>>
      [] v.k = "function" -> TRUE
      [] OTHER -> FALSE

\* String(v)
ToText(v) ==
    CASE v.k = "number" -> DecimalText(v.n)
      [] v.k = "string" -> v.s
      [] v.k = "function" -> <<"function ", v.name, "() { [native code] }">>
      [] OTHER -> <<v.k>>

\* a + b: the sum of two numbers, else the concatenation of their texts
Plus(a, b) ==
    IF a.k = "number" /\ b.k = "number" THEN Num(a.n + b.n)
    ELSE Str(ToText(a) \o ToText(b))

\* mergedEventSummary[event] = (mergedEventSummary[event] || 0) + count
MergeEntry(merged, event, count) ==
    LET old == GetProp(merged, event)
    IN  SetProp(merged, event, Plus(IF IsTruthy(old) THEN old ELSE Num(0), Num(count)))

\* for (const [event, count] of Object.entries(summary.event_summary)) ...
RECURSIVE MergeEntries(_, _)
MergeEntries(merged, entries) ==
    IF entries = <<>> THEN merged
    ELSE MergeEntries(MergeEntry(merged, entries[1][1], entries[1][2]), Tail(entries))

\* if (summary.event_summary) { ... }
MergeEventSummary(merged, summary) ==
    IF "event_summary" \in DOMAIN summary
    THEN MergeEntries(merged, summary["event_summary"])
    ELSE merged

\* details.sent_items?.items || []
SentItems(details) ==
    IF "sent_items" \in DOMAIN details /\ "items" \in DOMAIN details["sent_items"]
    THEN details["sent_items"]["items"]
    ELSE <<>>

\* Mutant of ConcatItems: sentItems.concat(allTransactionItems).
ConcatItemsInFront(all, details) ==
    (IF "sent_items" \in DOMAIN details /\ "items" \in DOMAIN details["sent_items"]
     THEN details["sent_items"]["items"] ELSE <<>>) \o all

\* allTransactionItems.concat(sentItems)
ConcatItems(all, details) == all \o SentItems(details)

\* Mutant of ReportFailed: >= 0 in place of > 0.
ReportFailedOnZero(summary) == NullishZero(summary, "failed_items") >= 0

\* (summary.failed_items ?? 0) > 0
ReportFailed(summary) == NullishZero(summary, "failed_items") > 0

(***************************************************************************)
(* JSON.stringify of the merged event summary and of the item array, as    *)
(* the sequence of the text's pieces.  An item is its own JSON text.       *)
(***************************************************************************)
JSONValue(v) ==
    CASE v.k = "number" -> DecimalText(v.n)
      [] v.k = "string" -> <<"\"">> \o v.s \o <<"\"">>
      [] OTHER -> <<"null">>

RECURSIVE JSONMembers(_)
JSONMembers(obj) ==
    IF obj = <<>> THEN <<>>
    ELSE <<"\"", obj[1][1], "\"", ":">> \o JSONValue(obj[1][2])
         \o (IF Len(obj) > 1 THEN <<",">> ELSE <<>>) \o JSONMembers(Tail(obj))

JSONObject(obj) == <<"{">> \o JSONMembers(obj) \o <<"}">>

RECURSIVE JSONElements(_)
JSONElements(arr) ==
    IF arr = <<>> THEN <<>>
    ELSE <<arr[1]>> \o (IF Len(arr) > 1 THEN <<",">> ELSE <<>>) \o JSONElements(Tail(arr))

JSONArray(arr) == <<"[">> \o JSONElements(arr) \o <<"]">>

(***************************************************************************)
(* The log row.                                                            *)
(***************************************************************************)
\* Mutant of ResolveMode: firstExecution.mode ?? 'regular', which keeps ''.
ResolveModeNullish(configured, first) ==
    IF configured = "auto" /\ first # Null
    THEN IF "mode" \in DOMAIN first THEN first["mode"] ELSE "regular"
    ELSE configured

\* let mode = executionMode; if (mode === 'auto' && firstExecution) { ... }
ResolveMode(configured, first) ==
    IF configured = "auto" /\ first # Null
    THEN IF "mode" \in DOMAIN first /\ first["mode"] # "" THEN first["mode"] ELSE "regular"
    ELSE configured

\* workflowMode === 'manual' ? 'manual' : 'scheduled'
ExecutionType(wfMode) == IF wfMode = "manual" THEN "manual" ELSE "scheduled"

\* workflow.name || 'Unknown'
WorkflowName(name) == IF name # "" THEN name ELSE "Unknown"

\* hasFailures ? 'failed' : 'success'
StatusOf(failures) == IF failures THEN "failed" ELSE "success"

MissingScriptIdMessage ==
    "Could not extract script_id from input data. Make sure this node receives data with execution information."

\* new NodeOperationError(node, `Failed to log execution: ${error.message}`)
FailedToLog(message) == [message |-> <<"Failed to log execution: ", message>>]

\* Mutant of SuccessResult: batches_aggregated counts from the last index.
SuccessResultLastIndex(id, batches, data) ==
    [success |-> TRUE, script_id |-> id, batches_aggregated |-> batches - 1, log_data |-> data]

\* { success: true, logged_at, script_id, batches_aggregated, log_data }
\* (logged_at, the clock's reading, is left out)
SuccessResult(id, batches, data) ==
    [success |-> TRUE, script_id |-> id, batches_aggregated |-> batches, log_data |-> data]

\* { success: false, error: error.message, script_id: scriptId }
FailureResult(message, id) == [success |-> FALSE, error |-> message, script_id |-> id]

\* The eleven bound values of the INSERT, in column order.
RowOf(data) ==
    <<data.script_id, data.execution_mode, data.execution_type, data.workflow_name,
      data.status, data.items_processed, data.items_new, data.items_duplicates,
      data.items_updated, data.event_summary, data.full_details>>

\* Mutant of AfterQuery: a failed query is tried again.
AfterQueryRetry(ok) == IF ok THEN "end" ELSE "execute"

\* Where insertLog goes after connection.execute: the finally block, once.
AfterQuery(ok) == "end"

(***************************************************************************)
(* State.                                                                  *)
(***************************************************************************)
VARIABLES
    items,                  \* this.getInputData(), each element the item's json
    executionMode,          \* node parameter executionMode
    options,                \* node parameter options
    workflowMode,           \* this.getMode()
    workflowName,           \* this.getWorkflow().name
    pc,                     \* where the invocation is
    i,                      \* loop index
    totalItemsProcessed,
    totalItemsNew,
    totalItemsDuplicates,
    totalItemsUpdated,
    allTransactionItems,
    mergedEventSummary,
    hasFailures,
    firstExecution,
    scriptId,
    logData,                \* the row handed to insertLog, Null before
    results,                \* the items the invocation returns
    thrown,                 \* the error the invocation rejects with, Null if none
    logger,                 \* levels of the lines written to this.logger
    connection,             \* "none", "open" or "closed"
    pendingError,           \* the error insertLog's finally block rethrows, Null if none
    insertLogOutcome,       \* "none", "resolved" or "rejected"
    queries,                \* connection.execute calls made
    rows                    \* rows in the table

vars ==
    <<items, executionMode, options, workflowMode, workflowName, pc, i,
      totalItemsProcessed, totalItemsNew, totalItemsDuplicates, totalItemsUpdated,
      allTransactionItems, mergedEventSummary, hasFailures, firstExecution, scriptId,
      logData, results, thrown, logger, connection, pendingError, insertLogOutcome,
      queries, rows>>

inputVars == <<items, executionMode, options, workflowMode, workflowName>>

foldVars ==
    <<i, totalItemsProcessed, totalItemsNew, totalItemsDuplicates, totalItemsUpdated,
      allTransactionItems, mergedEventSummary, hasFailures, firstExecution, scriptId>>

sinkVars == <<connection, pendingError, queries, rows>>

OptionSet(options_) == IF "failOnError" \in DOMAIN options_ THEN options_["failOnError"] ELSE FALSE

Verbose(options_) ==
    IF "verboseLogging" \in DOMAIN options_ THEN options_["verboseLogging"] ELSE FALSE

(***************************************************************************)
(* Lines 115-135: the state execute starts from, for given inputs.         *)
(***************************************************************************)
Start ==
    /\ pc = "loop"
    /\ i = 0
    /\ totalItemsProcessed = 0
    /\ totalItemsNew = 0
    /\ totalItemsDuplicates = 0
    /\ totalItemsUpdated = 0
    /\ allTransactionItems = <<>>
    /\ mergedEventSummary = <<>>
    /\ hasFailures = FALSE
    /\ firstExecution = Null
    /\ scriptId = Null
    /\ logData = Null
    /\ results = <<>>
    /\ thrown = Null
    /\ logger = <<>>
    /\ connection = "none"
    /\ pendingError = Null
    /\ insertLogOutcome = "none"
    /\ queries = 0
    /\ rows = <<>>

(***************************************************************************)
(* Lines 138-172: one iteration of the loop.                               *)
(***************************************************************************)
LoopBody ==
    /\ pc = "loop"
    /\ i < Len(items)
    /\ LET input == items[i + 1]
           summary == PropOrEmpty(input, "summary")
           execution == PropOrEmpty(input, "execution")
           details == PropOrEmpty(input, "details")
       IN  /\ firstExecution' = IF i = 0 THEN execution ELSE firstExecution
           /\ scriptId' = IF i = 0 THEN ExtractScriptId(execution) ELSE scriptId
           /\ totalItemsProcessed' = totalItemsProcessed + OrZero(summary, "total_input")
           /\ totalItemsNew' = totalItemsNew + OrZero(summary, "new_items")
           /\ totalItemsDuplicates' = totalItemsDuplicates + OrZero(summary, "exact_duplicates")
           /\ totalItemsUpdated' = totalItemsUpdated + OrZero(summary, "updated_items")
           /\ hasFailures' = IF ReportFailed(summary) THEN TRUE ELSE hasFailures
           /\ mergedEventSummary' = MergeEventSummary(mergedEventSummary, summary)
           /\ allTransactionItems' = ConcatItems(allTransactionItems, details)
    /\ i' = i + 1
    /\ UNCHANGED <<inputVars, pc, logData, results, thrown, logger, sinkVars, insertLogOutcome>>

(***************************************************************************)
(* Lines 237-252: the catch block, entered with error.message = message.   *)
(***************************************************************************)
Catch(message) ==
    IF OptionSet(options)
    THEN /\ pc' = "failed"
         /\ thrown' = FailedToLog(message)
         /\ UNCHANGED <<results, logger>>
    ELSE /\ pc' = "done"
         /\ logger' = Append(logger, "error")
         /\ results' = Append(results, FailureResult(message, scriptId))
         /\ UNCHANGED thrown

(***************************************************************************)
(* Lines 176-183: the loop is over and script_id was not found.            *)
(***************************************************************************)
MissingScriptId ==
    /\ pc = "loop"
    /\ i >= Len(items)
    /\ IsFalsy(scriptId)
    /\ Catch(MissingScriptIdMessage)
    /\ UNCHANGED <<inputVars, foldVars, logData, sinkVars, insertLogOutcome>>

(***************************************************************************)
(* Lines 185-224: the row is built and insertLog is called.                *)
(***************************************************************************)
PrepareLog ==
    /\ pc = "loop"
    /\ i >= Len(items)
    /\ ~IsFalsy(scriptId)
    /\ logData' =
         [script_id |-> scriptId,
          execution_mode |-> ResolveMode(executionMode, firstExecution),
          execution_type |-> ExecutionType(workflowMode),
          workflow_name |-> WorkflowName(workflowName),
          status |-> StatusOf(hasFailures),
          items_processed |-> totalItemsProcessed,
          items_new |-> totalItemsNew,
          items_duplicates |-> totalItemsDuplicates,
          items_updated |-> totalItemsUpdated,
          event_summary |-> JSONObject(mergedEventSummary),
          full_details |-> JSONArray(allTransactionItems)]
    /\ logger' = IF Verbose(options) THEN Append(logger, "info") ELSE logger
    /\ pc' = "getCredentials"
    /\ UNCHANGED <<inputVars, foldVars, results, thrown, sinkVars, insertLogOutcome>>

(***************************************************************************)
(* Lines 258-304: insertLog.  Each await resolves or rejects.              *)
(***************************************************************************)
GetCredentials ==
    /\ pc = "getCredentials"
    /\ pc' = "createConnection"
    /\ UNCHANGED <<inputVars, foldVars, logData, results, thrown, logger, sinkVars,
                   insertLogOutcome>>

GetCredentialsFails ==
    /\ pc = "getCredentials"
    /\ insertLogOutcome' = "rejected"
    /\ Catch("credentials error")
    /\ UNCHANGED <<inputVars, foldVars, logData, sinkVars>>

CreateConnection ==
    /\ pc = "createConnection"
    /\ connection' = "open"
    /\ pc' = "execute"
    /\ UNCHANGED <<inputVars, foldVars, logData, results, thrown, logger, pendingError,
                   queries, rows, insertLogOutcome>>

CreateConnectionFails ==
    /\ pc = "createConnection"
    /\ insertLogOutcome' = "rejected"
    /\ Catch("connection error")
    /\ UNCHANGED <<inputVars, foldVars, logData, sinkVars>>

Execute ==
    /\ pc = "execute"
    /\ queries' = queries + 1
    /\ rows' = Append(rows, RowOf(logData))
    /\ pc' = AfterQuery(TRUE)
    /\ UNCHANGED <<inputVars, foldVars, logData, results, thrown, logger, connection,
                   pendingError, insertLogOutcome>>

ExecuteFails ==
    /\ pc = "execute"
    /\ queries' = queries + 1
    /\ pendingError' = [message |-> "query error"]
    /\ pc' = AfterQuery(FALSE)
    /\ UNCHANGED <<inputVars, foldVars, logData, results, thrown, logger, connection,
                   rows, insertLogOutcome>>

\* connection.end() resolves after the query succeeded: insertLog resolves
\* and lines 226-236 push the success result.
EndAndReturn ==
    /\ pc = "end"
    /\ pendingError = Null
    /\ connection' = "closed"
    /\ insertLogOutcome' = "resolved"
    /\ results' = Append(results, SuccessResult(scriptId, Len(items), logData))
    /\ pc' = "done"
    /\ UNCHANGED <<inputVars, foldVars, logData, thrown, logger, pendingError, queries, rows>>

\* connection.end() resolves after the query failed: the query's error goes on.
EndAndRethrow ==
    /\ pc = "end"
    /\ pendingError # Null
    /\ connection' = "closed"
    /\ insertLogOutcome' = "rejected"
    /\ Catch(pendingError.message)
    /\ UNCHANGED <<inputVars, foldVars, logData, pendingError, queries, rows>>

\* connection.end() rejects: its error replaces whatever was pending.
EndFails ==
    /\ pc = "end"
    /\ insertLogOutcome' = "rejected"
    /\ Catch("end error")
    /\ UNCHANGED <<inputVars, foldVars, logData, sinkVars>>

Next ==
    \/ LoopBody
    \/ MissingScriptId
    \/ PrepareLog
    \/ GetCredentials
    \/ GetCredentialsFails
    \/ CreateConnection
    \/ CreateConnectionFails
    \/ Execute
    \/ ExecuteFails
    \/ EndAndReturn
    \/ EndAndRethrow
    \/ EndFails

(***************************************************************************)
(* Inputs.  Every specification starts execute on inputs drawn from a      *)
(* pool of reports; the pools differ in the part of a report they vary.    *)
(***************************************************************************)
SeqsUpTo(S, n) == UNION {[1..m -> S] : m \in 0..n}

\* All objects whose properties are a subset of DOMAIN values, the property
\* name having a value of values[name].
Objects(values) ==
    UNION {{f \in [present -> UNION {values[n] : n \in present}] :
                \A n \in present : f[n] \in values[n]} : present \in SUBSET DOMAIN values}

IdChars == {"0", "4", "a", " ", "-"}

ScriptIds == SeqsUpTo(IdChars, MaxIdLen)

ValidExecution == [script_id |-> <<"4">>]

EventNames == {"click", "sale", "constructor"}

EventCounts == {0, 1, 2}

\* Object literals with at most two of the event names, in every order.
EventSummaries ==
    {es \in SeqsUpTo(EventNames \X EventCounts, 2) :
        \A a, b \in 1..Len(es) : a # b => es[a][1] # es[b][1]}

ItemValues == {"a", "b"}

TotalValues ==
    [name \in {"total_input", "new_items", "exact_duplicates", "updated_items"} |->
        IF name = "total_input" THEN {0, 1} ELSE {1}]

TotalsReports ==
    {[execution |-> ValidExecution]}
    \cup {[execution |-> ValidExecution, summary |-> s] :
            s \in Objects(TotalValues)}

EventsReports ==
    {[execution |-> ValidExecution], [execution |-> ValidExecution, summary |-> <<>>]}
    \cup {[execution |-> ValidExecution, summary |-> [event_summary |-> es]] :
            es \in EventSummaries}

ItemsReports ==
    {[execution |-> ValidExecution],
     [execution |-> ValidExecution, details |-> <<>>],
     [execution |-> ValidExecution, details |-> [sent_items |-> <<>>]]}
    \cup {[execution |-> ValidExecution, details |-> [sent_items |-> [items |-> s]]] :
            s \in SeqsUpTo(ItemValues, MaxItems)}

FailureReports ==
    {[execution |-> ValidExecution], [execution |-> ValidExecution, summary |-> <<>>]}
    \cup {[execution |-> ValidExecution, summary |-> [failed_items |-> n]] : n \in {0, 1, 2}}

IdentifierReports ==
    {<<>>, [execution |-> <<>>]}
    \cup {[execution |-> [script_id |-> s]] : s \in ScriptIds}

LaterReports ==
    {<<>>, [execution |-> [script_id |-> <<"4">>]], [execution |-> [script_id |-> <<"a">>]],
     [execution |-> [script_id |-> <<"4", "4">>, mode |-> "monthly"]]}

ModeReports ==
    {<<>>, [execution |-> ValidExecution]}
    \cup {[execution |-> [script_id |-> <<"4">>, mode |-> m]] :
            m \in {"", "regular", "monthly", "hourly"}}

MixedReports ==
    {<<>>,
     [execution |-> ValidExecution],
     [execution |-> [script_id |-> <<"a">>, mode |-> "monthly"]],
     [execution |-> [script_id |-> <<"4", "0">>, mode |-> "monthly"],
      summary |-> [total_input |-> 2, new_items |-> 1, failed_items |-> 1,
                   event_summary |-> <<<<"click", 1>>>>],
      details |-> [sent_items |-> [items |-> <<"a", "b">>]]],
     [summary |-> [total_input |-> 1, exact_duplicates |-> 1, updated_items |-> 1,
                   event_summary |-> <<<<"sale", 2>>, <<"click", 1>>>>],
      details |-> [sent_items |-> [items |-> <<"b">>]]]}

ExecutionModes == {"auto", "regular", "monthly"}

FoldOptions == {<<>>, [failOnError |-> TRUE]}

AllOptions ==
    {<<>>, [failOnError |-> FALSE], [failOnError |-> TRUE],
     [failOnError |-> TRUE, verboseLogging |-> TRUE], [verboseLogging |-> TRUE]}

\* execute on any sequence of reports of the pool, under one fixed environment
InitFold(pool) ==
    /\ items \in SeqsUpTo(pool, MaxReports)
    /\ executionMode = "auto"
    /\ options \in FoldOptions
    /\ workflowMode = "trigger"
    /\ workflowName = "Ryze"
    /\ Start

InitTotals == InitFold(TotalsReports)

InitEvents == InitFold(EventsReports)

InitItems == InitFold(ItemsReports)

InitFailures == InitFold(FailureReports)

InitIdentifier ==
    /\ items \in {<<>>} \cup {<<first>> \o rest :
                                first \in IdentifierReports,
                                rest \in SeqsUpTo(LaterReports, MaxReports - 1)}
    /\ executionMode = "auto"
    /\ options \in AllOptions
    /\ workflowMode = "trigger"
    /\ workflowName = "Ryze"
    /\ Start

InitMode ==
    /\ items \in SeqsUpTo(ModeReports, MaxReports)
    /\ executionMode \in ExecutionModes
    /\ options \in FoldOptions
    /\ workflowMode = "trigger"
    /\ workflowName = "Ryze"
    /\ Start

Init ==
    /\ items \in SeqsUpTo(MixedReports, MaxReports)
    /\ executionMode \in ExecutionModes
    /\ options \in AllOptions
    /\ workflowMode \in {"manual", "trigger"}
    /\ workflowName \in {"", "Ryze"}
    /\ Start

Spec == Init /\ [][Next]_vars

SpecTotals == InitTotals /\ [][Next]_vars

SpecEvents == InitEvents /\ [][Next]_vars

SpecItems == InitItems /\ [][Next]_vars

SpecFailures == InitFailures /\ [][Next]_vars

SpecIdentifier == InitIdentifier /\ [][Next]_vars

SpecMode == InitMode /\ [][Next]_vars

(***************************************************************************)
(* What the claims speak of, read off the input reports alone.             *)
(***************************************************************************)
\* A summary field of a report, 0 when the summary or the field is missing.
FieldOf(report, name) ==
    IF "summary" \in DOMAIN report /\ name \in DOMAIN report["summary"]
    THEN report["summary"][name]
    ELSE 0

RECURSIVE SumOfField(_, _)
SumOfField(reports, name) ==
    IF reports = <<>> THEN 0
    ELSE FieldOf(reports[1], name) + SumOfField(Tail(reports), name)

\* The reports folded so far.
Folded == SubSeq(items, 1, i)

FoldOver == i = Len(items)

\* details.sent_items.items of a report, empty when any level is missing.
ItemsOf(report) ==
    IF /\ "details" \in DOMAIN report
       /\ "sent_items" \in DOMAIN report["details"]
       /\ "items" \in DOMAIN report["details"]["sent_items"]
    THEN report["details"]["sent_items"]["items"]
    ELSE <<>>

RECURSIVE Concatenation(_)
Concatenation(reports) ==
    IF reports = <<>> THEN <<>>
    ELSE ItemsOf(reports[1]) \o Concatenation(Tail(reports))

\* The event summary of a report as a set of <<name, count>> pairs.
EventsOf(report) ==
    IF "summary" \in DOMAIN report /\ "event_summary" \in DOMAIN report["summary"]
    THEN {report["summary"]["event_summary"][j] :
            j \in 1..Len(report["summary"]["event_summary"])}
    ELSE {}

EventCountOf(report, name) ==
    IF \E e \in EventsOf(report) : e[1] = name
    THEN (CHOOSE e \in EventsOf(report) : e[1] = name)[2]
    ELSE 0

RECURSIVE SumOfEvent(_, _)
SumOfEvent(reports, name) ==
    IF reports = <<>> THEN 0
    ELSE EventCountOf(reports[1], name) + SumOfEvent(Tail(reports), name)

EventNamesIn(reports) == UNION {{e[1] : e \in EventsOf(reports[j])} : j \in 1..Len(reports)}

HasScriptId(report) ==
    "execution" \in DOMAIN report /\ "script_id" \in DOMAIN report["execution"]

FirstScriptId == items[1]["execution"]["script_id"]

FailOnError == "failOnError" \in DOMAIN options /\ options["failOnError"]

MissingIdentifierOutcome ==
    \/ pc = "done" /\ Len(results) = 1 /\ ~results[1].success
                   /\ results[1].error = MissingScriptIdMessage
    \/ pc = "failed" /\ thrown = FailedToLog(MissingScriptIdMessage)

(***************************************************************************)
(* C1: after the fold over a non-empty sequence of reports each of the     *)
(* four totals is the sum over all reports of its summary field, a missing *)
(* summary or field counting as 0.                                         *)
(***************************************************************************)
C1_TotalsAreSums ==
    (FoldOver /\ items # <<>>) =>
        /\ totalItemsProcessed = SumOfField(items, "total_input")
        /\ totalItemsNew = SumOfField(items, "new_items")
        /\ totalItemsDuplicates = SumOfField(items, "exact_duplicates")
        /\ totalItemsUpdated = SumOfField(items, "updated_items")

C1_Witness ==
    /\ FoldOver
    /\ Len(items) = 2
    /\ "summary" \notin DOMAIN items[1]
    /\ "summary" \in DOMAIN items[2]
    /\ items[2]["summary"] = [total_input |-> 1, exact_duplicates |-> 1]
    /\ totalItemsProcessed = 1
    /\ totalItemsNew = 0
    /\ totalItemsDuplicates = 1
    /\ totalItemsUpdated = 0

(***************************************************************************)
(* C2: after the fold the merged event summary holds exactly the event     *)
(* names that occur in some report, each with the sum of its counts over   *)
(* all reports (so the result does not depend on the order of the          *)
(* reports).                                                               *)
(***************************************************************************)
C2_MergedIsSum ==
    FoldOver =>
        /\ Len(mergedEventSummary) = Cardinality(OwnNames(mergedEventSummary))
        /\ OwnNames(mergedEventSummary) = EventNamesIn(items)
        /\ \A name \in EventNamesIn(items) :
              OwnValue(mergedEventSummary, name) = Num(SumOfEvent(items, name))

(***************************************************************************)
(* C3: allTransactionItems is the concatenation, in report order, of the   *)
(* details.sent_items.items of the reports folded so far, hence of all     *)
(* reports after the fold; missing details, sent_items or items give the   *)
(* empty sequence.                                                         *)
(***************************************************************************)
C3_ItemsAreConcatenation == allTransactionItems = Concatenation(Folded)

C3_Witness ==
    /\ FoldOver
    /\ Len(items) = 2
    /\ ItemsOf(items[1]) = <<"a", "b">>
    /\ ItemsOf(items[2]) = <<"a">>
    /\ allTransactionItems = <<"a", "b", "a">>

(***************************************************************************)
(* C4: hasFailures is true iff some report folded so far has               *)
(* failed_items > 0 (missing counts as 0), it never goes back to false,    *)
(* and the status of the row is "failed" exactly when it is true.          *)
(***************************************************************************)
C4_HasFailures ==
    /\ [](hasFailures <=> \E j \in 1..i : FieldOf(items[j], "failed_items") > 0)
    /\ [][hasFailures => hasFailures']_vars
    /\ [](logData # Null =>
            /\ logData.status \in {"failed", "success"}
            /\ logData.status = "failed" <=> hasFailures)

C4_Witness ==
    /\ logData # Null
    /\ Len(items) = 2
    /\ FieldOf(items[1], "failed_items") = 2
    /\ FieldOf(items[2], "failed_items") = 0
    /\ hasFailures
    /\ logData.status = "failed"

\* The first report gives parseInt nothing to return.
C5_NoIdentifier ==
    items = <<>> \/ ~HasScriptId(items[1]) \/ ParseInt(FirstScriptId) = NaN

(***************************************************************************)
(* C5: when there is no report, or the first report has no execution, no   *)
(* script_id, or a script_id parseInt makes nothing of, the invocation     *)
(* ends with the missing-script_id error (thrown when failOnError is set,  *)
(* a failure result otherwise) and the insert is never attempted.          *)
(***************************************************************************)
C5_MissingIdentifier ==
    C5_NoIdentifier =>
        /\ pc \in {"loop", "done", "failed"}
        /\ logData = Null
        /\ insertLogOutcome = "none"
        /\ connection = "none"
        /\ queries = 0
        /\ rows = <<>>
        /\ pc # "loop" => MissingIdentifierOutcome
        /\ pc = "failed" <=> (pc # "loop" /\ FailOnError)

C5_Witness ==
    /\ pc = "done"
    /\ Len(items) = 2
    /\ HasScriptId(items[1])
    /\ FirstScriptId = <<"a", "4">>
    /\ HasScriptId(items[2])
    /\ items[2]["execution"]["script_id"] = <<"4">>
    /\ rows = <<>>

\* The integers whose decimal text the script_id pool can hold.
IdRange == 0..99

(***************************************************************************)
(* C6: when the first report's script_id is the decimal text of an         *)
(* integer n >= 0, the invocation does not end with the missing-script_id  *)
(* error and the row handed to insertLog has script_id = n, whatever the   *)
(* script_id of the later reports is.                                      *)
(***************************************************************************)
C6_DecimalIdentifier ==
    \A n \in IdRange :
        (items # <<>> /\ HasScriptId(items[1]) /\ FirstScriptId = DecimalText(n)) =>
            /\ ~MissingIdentifierOutcome
            /\ i >= 1 => scriptId = Num(n)
            /\ logData # Null => logData.script_id = Num(n)

\* The first report's execution.mode, "regular" when missing or empty.
C7_FirstMode ==
    IF "execution" \in DOMAIN items[1] /\ "mode" \in DOMAIN items[1]["execution"]
       /\ items[1]["execution"]["mode"] # ""
    THEN items[1]["execution"]["mode"]
    ELSE "regular"

(***************************************************************************)
(* C7: the execution_mode of the row is, under executionMode "auto", the   *)
(* first report's execution.mode, or "regular" when that is missing or     *)
(* empty; under any other executionMode it is the configured value.  Later *)
(* reports play no part.                                                   *)
(***************************************************************************)
C7_ResolvedMode ==
    logData # Null =>
        logData.execution_mode = IF executionMode = "auto" THEN C7_FirstMode ELSE executionMode

C7_Witness ==
    /\ logData # Null
    /\ executionMode = "auto"
    /\ Len(items) = 2
    /\ items[1]["execution"] = [script_id |-> <<"4">>, mode |-> ""]
    /\ "execution" \in DOMAIN items[2]
    /\ items[2]["execution"] = [script_id |-> <<"4">>, mode |-> "monthly"]
    /\ logData.execution_mode = "regular"

\* The integer parseInt finds in the first report's script_id, else null.
C8_IdentifierOrNull ==
    IF items # <<>> /\ HasScriptId(items[1]) /\ ParseInt(FirstScriptId) # NaN
    THEN ParseInt(FirstScriptId)
    ELSE Null

\* The invocation ended other than by a resolved insertLog.
C8_Failed == pc = "failed" \/ (pc = "done" /\ insertLogOutcome # "resolved")

(***************************************************************************)
(* C8: a failed invocation with failOnError false or unset does not throw  *)
(* and returns one failure result {success: false, error, script_id}       *)
(* whose script_id is the integer parsed from the first report, or null    *)
(* when none was obtained; with failOnError true it throws and returns no  *)
(* result.                                                                 *)
(***************************************************************************)
C8_FailureHandling ==
    C8_Failed =>
        IF FailOnError
        THEN pc = "failed" /\ thrown # Null /\ results = <<>>
        ELSE /\ pc = "done"
             /\ thrown = Null
             /\ Len(results) = 1
             /\ DOMAIN results[1] = {"success", "error", "script_id"}
             /\ results[1].success = FALSE
             /\ results[1].script_id = C8_IdentifierOrNull

(***************************************************************************)
(* C9: connection.execute is called at most once per invocation, only      *)
(* after every report was folded and script_id was found, and at most one  *)
(* row is written: no second attempt after a failure or a success.         *)
(***************************************************************************)
C9_AtMostOneInsert ==
    /\ queries <= 1
    /\ Len(rows) <= queries
    /\ queries = 1 =>
          /\ FoldOver
          /\ items # <<>>
          /\ scriptId.k = "number"
          /\ scriptId.n # 0
          /\ logData # Null
    /\ pc \in {"done", "failed"} /\ insertLogOutcome = "resolved" => Len(rows) = 1

C9_Witness ==
    /\ pc = "done"
    /\ Len(items) = 2
    /\ queries = 1
    /\ rows = <<>>
    /\ insertLogOutcome = "rejected"
    /\ results[1].error = "query error"

(***************************************************************************)
(* C10: an invocation that returns emits exactly one result; it is the     *)
(* success result iff insertLog resolved, and then batches_aggregated is   *)
(* the number of input reports and log_data is the row that was written;   *)
(* otherwise it is the failure result.                                     *)
(***************************************************************************)
C10_OneResult ==
    /\ pc = "failed" => results = <<>>
    /\ pc = "done" =>
          /\ Len(results) = 1
          /\ results[1].success <=> insertLogOutcome = "resolved"
          /\ results[1].success =>
                /\ DOMAIN results[1] =
                       {"success", "script_id", "batches_aggregated", "log_data"}
                /\ results[1].batches_aggregated = Len(items)
                /\ results[1].log_data = logData
                /\ rows = <<RowOf(results[1].log_data)>>
          /\ ~results[1].success => DOMAIN results[1] = {"success", "error", "script_id"}

C10_Witness ==
    /\ pc = "done"
    /\ Len(items) = 2
    /\ results[1].success
    /\ results[1].batches_aggregated = 2
    /\ rows = <<RowOf(logData)>>
    /\ logData.items_processed = 3
====
